---- MODULE Spec2Model ----
(***************************************************************************)
(* Model of agent.py: three agent tools over the TfL HTTP API.             *)
(*   - get_tfl_api: the gateway that injects the app_key header            *)
(*   - stop_point_types, journey_planner: unguarded tools                  *)
(*   - stop_point_list: the tool guarded by the asyncio.Lock API_CALL_LOCK *)
(* Tool calls are asyncio tasks; a task is suspended only at an await that *)
(* really blocks (the HTTP response, or the lock's waiter future), so each *)
(* action below is one run of a task between two suspensions.             *)
(***************************************************************************)
EXTENDS Integers, Sequences, FiniteSets, TLC

\* ------------------------------------------------------------------ bounds
\* number of tool-call tasks the agent may have running concurrently
NumCalls == 3
\* longest JSON array of stop points / journeys / legs drawn as an input
MaxItems == 2

Calls == 1..NumCalls

None == "None"

\* ------------------------------------------------------------ text helpers
UpperAlpha ==
    <<"A","B","C","D","E","F","G","H","I","J","K","L","M",
      "N","O","P","Q","R","S","T","U","V","W","X","Y","Z">>

LowerAlpha ==
    <<"a","b","c","d","e","f","g","h","i","j","k","l","m",
      "n","o","p","q","r","s","t","u","v","w","x","y","z">>

\* str.lower() on one character
lower_char(c) ==
    IF \E i \in 1..26 : UpperAlpha[i] = c
    THEN LowerAlpha[CHOOSE i \in 1..26 : UpperAlpha[i] = c]
    ELSE c

\* str.lower(): strings are sequences of one-character strings
str_lower(s) == [i \in 1..Len(s) |-> lower_char(s[i])]

\* Python's `sub in s`, scanning the start positions left to right
RECURSIVE find_from(_, _, _)
find_from(sub, s, i) ==
    IF i + Len(sub) - 1 > Len(s) THEN FALSE
    ELSE IF SubSeq(s, i, i + Len(sub) - 1) = sub THEN TRUE
    ELSE find_from(sub, s, i + 1)

str_contains(sub, s) == find_from(sub, s, 1)

camden == <<"c","a","m","d","e","n">>
liverpool == <<"l","i","v","e","r","p","o","o","l">>

\* ------------------------------------------------------------ tool returns
\* what a tool invocation hands back to the agent: the exception it raised
\* (None when it returned), the returned value, and whether r.json() ran
Raised(exc, parsed) == [exc |-> exc, result |-> None, parsed |-> parsed]

Returned(value) == [exc |-> None, result |-> value, parsed |-> TRUE]

\* httpx Response.raise_for_status(): raises HTTPStatusError unless 2xx
raise_for_status(status) == ~(200 <= status /\ status <= 299)

\* variant: the name is matched as written, without lower-casing
name_selected_case_sensitive(commonName) ==
    \/ str_contains(camden, commonName)
    \/ str_contains(liverpool, commonName)

\* the `if` of the list comprehension of stop_point_list
name_selected(commonName) ==
    \/ str_contains(camden, str_lower(commonName))
    \/ str_contains(liverpool, str_lower(commonName))

\* the list comprehension of stop_point_list over a JSON array, item by item
RECURSIVE comprehension(_, _, _)
comprehension(items, i, acc) ==
    IF i > Len(items) THEN Returned(acc)
    ELSE IF "commonName" \notin DOMAIN items[i] THEN Raised("KeyError", TRUE)
    ELSE IF ~name_selected(items[i]["commonName"])
         THEN comprehension(items, i + 1, acc)
    ELSE IF "naptanId" \notin DOMAIN items[i] THEN Raised("KeyError", TRUE)
    ELSE comprehension(items, i + 1,
            Append(acc, [name |-> items[i]["commonName"],
                         naptanId |-> items[i]["naptanId"]]))

\* the return statement of stop_point_list: r.json() and the comprehension.
\* A JSON object iterates over its keys, and indexing a key (a str) with
\* "commonName" is a TypeError; an object without keys yields no item.
stop_point_list_return(body) ==
    IF body.kind = "invalid" THEN Raised("JSONDecodeError", TRUE)
    ELSE IF body.kind = "object"
         THEN IF DOMAIN body.fields = {} THEN Returned(<<>>)
              ELSE Raised("TypeError", TRUE)
    ELSE comprehension(body.items, 1, <<>>)

\* variant: raise_for_status() is left to propagate, 404 included
stop_point_list_raising(status, body) ==
    IF raise_for_status(status) THEN Raised("HTTPStatusError", FALSE)
    ELSE stop_point_list_return(body)

\* stop_point_list from the response on: the bare `except:` swallows the
\* HTTPStatusError unless the status is 404, and control falls through to
\* the return statement
stop_point_list(status, body) ==
    IF raise_for_status(status) /\ status = 404
    THEN Raised("ModelRetry", FALSE)
    ELSE stop_point_list_return(body)

\* stop_point_types from the response on
stop_point_types(status, body) ==
    IF raise_for_status(status) THEN Raised("HTTPStatusError", FALSE)
    ELSE IF body.kind = "invalid" THEN Raised("JSONDecodeError", TRUE)
    ELSE Returned([stop_point_types |-> body])

\* the inner `for leg in journey["legs"]` of the set comprehension
RECURSIVE legs_loop(_, _, _)
legs_loop(legs, i, acc) ==
    IF i > Len(legs) THEN acc
    ELSE legs_loop(legs, i + 1, acc \cup {legs[i].instruction.summary})

\* variant: only the first journey option is read
journeys_loop_first_only(journeys, j, acc) ==
    IF journeys = <<>> THEN acc ELSE legs_loop(journeys[1].legs, 1, acc)

\* the outer `for journey in r.json()["journeys"]` of the set comprehension
RECURSIVE journeys_loop(_, _, _)
journeys_loop(journeys, j, acc) ==
    IF j > Len(journeys) THEN acc
    ELSE journeys_loop(journeys, j + 1, legs_loop(journeys[j].legs, 1, acc))

\* variant: journey_planner handles errors the way stop_point_list does
journey_planner_retrying(status, body) ==
    IF raise_for_status(status) /\ status = 404
    THEN Raised("ModelRetry", FALSE)
    ELSE IF raise_for_status(status) THEN Raised("HTTPStatusError", FALSE)
    ELSE IF body.kind # "object" THEN Raised("TypeError", TRUE)
    ELSE IF "journeys" \notin DOMAIN body.fields THEN Raised("KeyError", TRUE)
    ELSE Returned(journeys_loop(body.fields["journeys"], 1, {}))

\* journey_planner from the response on
journey_planner(status, body) ==
    IF raise_for_status(status) THEN Raised("HTTPStatusError", FALSE)
    ELSE IF body.kind = "invalid" THEN Raised("JSONDecodeError", TRUE)
    ELSE IF body.kind = "array" THEN Raised("TypeError", TRUE)
    ELSE IF "journeys" \notin DOMAIN body.fields THEN Raised("KeyError", TRUE)
    ELSE Returned(journeys_loop(body.fields["journeys"], 1, {}))

\* how the agent framework classifies the end of a tool invocation:
\* ModelRetry asks the model to retry, any other exception fails the call
Outcome(exc) ==
    IF exc = None THEN "Success"
    ELSE IF exc = "ModelRetry" THEN "Retryable"
    ELSE IF exc = "CancelledError" THEN "Cancelled"
    ELSE "Fatal"

\* ----------------------------------------------------------------- gateway
EmptyDict == <<>>

\* get_tfl_api(ctx, url, **kwargs): the headers expression
\* dict(**kwargs.get("headers", {}), app_key=app_key) is evaluated first, then
\* client.get(*args, **kwargs, headers=...) is called; a keyword given twice
\* is a TypeError in either place, and then no request is issued
get_tfl_api(tfl_api_key, kwargs) ==
    LET caller == IF "headers" \in DOMAIN kwargs THEN kwargs["headers"]
                  ELSE EmptyDict
        merged == [k \in DOMAIN caller \cup {"app_key"} |->
                     IF k = "app_key" THEN tfl_api_key ELSE caller[k]]
    IN  IF "app_key" \in DOMAIN caller
        THEN [exc |-> "TypeError", requests |-> <<>>]
        ELSE IF "headers" \in DOMAIN kwargs
        THEN [exc |-> "TypeError", requests |-> <<>>]
        ELSE [exc |-> None, requests |-> << [headers |-> merged] >>]

\* -------------------------------------------------------------------- lock
\* asyncio.Lock: `locked`, the FIFO of waiting tasks, and the waiters whose
\* future has been given its result (woken, not yet resumed).  A cancelled
\* waiter leaves the queue in the step that cancels it.

\* variant: acquire() looks at the queue only, not at `locked`
acquire_ignoring_locked(lock) == lock.waiters = <<>>

\* Lock.acquire() takes the lock at once, without suspending
acquire_now(lock) == ~lock.locked /\ lock.waiters = <<>>

\* variant: nobody is woken
wake_up_nobody(lock) == lock

\* Lock._wake_up_first()
wake_up_first(lock) ==
    IF lock.waiters = <<>> THEN lock
    ELSE [lock EXCEPT !.woken = @ \cup {Head(lock.waiters)}]

\* Lock.release()
release(lock) == wake_up_first([lock EXCEPT !.locked = FALSE])

\* variant: acquire()/release() written out by hand, without try/finally
aexit_on_success_only(lock, exc) ==
    IF exc = None THEN release(lock) ELSE lock

\* leaving `async with API_CALL_LOCK:` with exception exc (None: normally):
\* __aexit__ releases the lock on every exit
aexit(lock, exc) == release(lock)

\* the waiter's side of Lock.acquire() when its future is done: it leaves
\* the queue and holds the lock
acquire_resumed(lock, t) ==
    [locked |-> TRUE,
     waiters |-> SelectSeq(lock.waiters, LAMBDA w : w # t),
     woken |-> lock.woken \ {t}]

\* the waiter's side of Lock.acquire() on CancelledError: it leaves the
\* queue and, when the lock is free, passes the wake-up on
acquire_cancelled(lock, t) ==
    LET left == [lock EXCEPT !.waiters = SelectSeq(@, LAMBDA w : w # t),
                             !.woken = @ \ {t}]
    IN  IF left.locked THEN left ELSE wake_up_first(left)

\* ------------------------------------------------------------------- state
VARIABLES
    deps,           \* the Deps bundle of the run: its tfl_api_key
    API_CALL_LOCK,  \* the module-level asyncio.Lock
    pc,             \* per tool call: "idle", "waiting" (on the lock), "inflight"
    tool,           \* per tool call: the tool it runs
    last,           \* the latest return handed back to the caller
    input           \* the input of the one call of a sequential run (SeqSpec)

vars == <<deps, API_CALL_LOCK, pc, tool, last, input>>

\* ------------------------------------------------------- remote responses
\* a response body: text that is not JSON, a JSON array or a JSON object
Invalid == [kind |-> "invalid", items |-> <<>>, fields |-> EmptyDict]
Array(items) == [kind |-> "array", items |-> items, fields |-> EmptyDict]
Object(fields) == [kind |-> "object", items |-> <<>>, fields |-> fields]
ErrorObject == Object([message |-> "error"])
EmptyObject == Object(EmptyDict)

\* statuses the remote API answers with in the concurrent runs
Statuses == {200, 404, 500}

CamdenTown == <<"C","a","m","d","e","n"," ","T","o","w","n">>
CAMDEN == <<"C","A","M","D","E","N">>
OxfordCircus == <<"O","x","f","o","r","d">>
LiverpoolSt == <<"L","i","v","e","r","p","o","o","l"," ","S","t">>
CamDen == <<"c","a","m"," ","d","e","n">>

StopPoints ==
    { [commonName |-> CamdenTown, naptanId |-> "940GZZLUCTN", modes |-> "tube"],
      [commonName |-> CAMDEN, naptanId |-> "910GCMDNRD"],
      [commonName |-> OxfordCircus, naptanId |-> "940GZZLUOXC"],
      [commonName |-> LiverpoolSt, naptanId |-> "940GZZLULVT"],
      [commonName |-> CamDen, naptanId |-> "490000001"] }

\* records the comprehension cannot project
BrokenStopPoints ==
    { [commonName |-> CamdenTown], [naptanId |-> "940GZZLUOXC"] }

SeqsUpTo(S, n) == UNION { [1..k -> S] : k \in 0..n }

Summaries == {"Walk to Camden Town Underground Station", "Northern line to Bank"}
Leg(summary) == [instruction |-> [summary |-> summary]]
Journey(legs) == [legs |-> legs]

\* bodies the remote API answers with in the concurrent runs
TypesBodies == {Invalid, Array(<<"NaptanMetroStation", "NaptanRailStation">>)}

ListBodies ==
    { Invalid, ErrorObject,
      Array(<< [commonName |-> CamdenTown, naptanId |-> "940GZZLUCTN"],
               [commonName |-> OxfordCircus, naptanId |-> "940GZZLUOXC"] >>) }

SharedLeg == Leg("Walk to Camden Town Underground Station")

JourneyBodies ==
    { Invalid, ErrorObject,
      Object([journeys |->
        << Journey(<<SharedLeg, Leg("Northern line to Bank")>>),
           Journey(<<SharedLeg>>) >>]) }

\* status 0 stands for "no response"
NoReturn ==
    [tool |-> None, status |-> 0,
     exc |-> None, result |-> None, parsed |-> FALSE]

NoInput == [op |-> None, status |-> 0, body |-> Invalid, kwargs |-> EmptyDict]

ToolReturn(name, status, ret) ==
    [tool |-> name, status |-> status,
     exc |-> ret.exc, result |-> ret.result, parsed |-> ret.parsed]

TypeOK ==
    /\ deps.tfl_api_key \in {None, "key"}
    /\ API_CALL_LOCK.locked \in BOOLEAN
    /\ API_CALL_LOCK.woken \subseteq Calls
    /\ pc \in [Calls -> {"idle", "waiting", "inflight"}]
    /\ tool \in [Calls -> {None, "stop_point_types", "stop_point_list", "journey_planner"}]
    /\ Outcome(last.exc) \in {"Success", "Retryable", "Fatal", "Cancelled"}

Init ==
    /\ deps \in { [tfl_api_key |-> k] : k \in {None, "key"} }
    /\ API_CALL_LOCK = [locked |-> FALSE, waiters |-> <<>>, woken |-> {}]
    /\ pc = [t \in Calls |-> "idle"]
    /\ tool = [t \in Calls |-> None]
    /\ last = NoReturn
    /\ input = NoInput

\* ----------------------------------------------------------------- actions
\* the agent invokes stop_point_types: the task runs to the await of the
\* HTTP response
stop_point_types_call(t) ==
    /\ pc[t] = "idle"
    /\ get_tfl_api(deps.tfl_api_key, EmptyDict).exc = None
    /\ pc' = [pc EXCEPT ![t] = "inflight"]
    /\ tool' = [tool EXCEPT ![t] = "stop_point_types"]
    /\ UNCHANGED <<deps, API_CALL_LOCK, last, input>>

\* the agent invokes journey_planner
journey_planner_call(t) ==
    /\ pc[t] = "idle"
    /\ get_tfl_api(deps.tfl_api_key, EmptyDict).exc = None
    /\ pc' = [pc EXCEPT ![t] = "inflight"]
    /\ tool' = [tool EXCEPT ![t] = "journey_planner"]
    /\ UNCHANGED <<deps, API_CALL_LOCK, last, input>>

\* the agent invokes stop_point_list and the lock is free: the task takes it
\* and runs to the await of the HTTP response
stop_point_list_call(t) ==
    /\ pc[t] = "idle"
    /\ acquire_now(API_CALL_LOCK)
    /\ get_tfl_api(deps.tfl_api_key, EmptyDict).exc = None
    /\ API_CALL_LOCK' = [API_CALL_LOCK EXCEPT !.locked = TRUE]
    /\ pc' = [pc EXCEPT ![t] = "inflight"]
    /\ tool' = [tool EXCEPT ![t] = "stop_point_list"]
    /\ UNCHANGED <<deps, last, input>>

\* the agent invokes stop_point_list and the lock is taken or queued for:
\* the task joins the waiters and suspends
stop_point_list_wait(t) ==
    /\ pc[t] = "idle"
    /\ ~acquire_now(API_CALL_LOCK)
    /\ API_CALL_LOCK' = [API_CALL_LOCK EXCEPT !.waiters = Append(@, t)]
    /\ pc' = [pc EXCEPT ![t] = "waiting"]
    /\ tool' = [tool EXCEPT ![t] = "stop_point_list"]
    /\ UNCHANGED <<deps, last, input>>

\* a woken waiter resumes inside acquire(), holds the lock and runs to the
\* await of the HTTP response
stop_point_list_resume(t) ==
    /\ pc[t] = "waiting"
    /\ t \in API_CALL_LOCK.woken
    /\ get_tfl_api(deps.tfl_api_key, EmptyDict).exc = None
    /\ API_CALL_LOCK' = acquire_resumed(API_CALL_LOCK, t)
    /\ pc' = [pc EXCEPT ![t] = "inflight"]
    /\ UNCHANGED <<deps, tool, last, input>>

\* the end of an invocation: the return is handed to the agent and the task
\* is gone
Finish(t, status, ret) ==
    /\ pc' = [pc EXCEPT ![t] = "idle"]
    /\ tool' = [tool EXCEPT ![t] = None]
    /\ last' = ToolReturn(tool[t], status, ret)
    /\ UNCHANGED <<deps, input>>

\* the response of a stop_point_types request arrives
stop_point_types_response(t, status, body) ==
    /\ pc[t] = "inflight" /\ tool[t] = "stop_point_types"
    /\ Finish(t, status, stop_point_types(status, body))
    /\ UNCHANGED API_CALL_LOCK

\* the response of a journey_planner request arrives
journey_planner_response(t, status, body) ==
    /\ pc[t] = "inflight" /\ tool[t] = "journey_planner"
    /\ Finish(t, status, journey_planner(status, body))
    /\ UNCHANGED API_CALL_LOCK

\* the response of a stop_point_list request arrives: the guarded block is
\* left (by ModelRetry on 404, normally otherwise), then the return
\* statement runs outside the lock, all without suspending
stop_point_list_response(t, status, body) ==
    /\ pc[t] = "inflight" /\ tool[t] = "stop_point_list"
    /\ LET ret == stop_point_list(status, body)
       IN  /\ API_CALL_LOCK' =
                aexit(API_CALL_LOCK,
                      IF ret.exc = "ModelRetry" THEN "ModelRetry" ELSE None)
           /\ Finish(t, status, ret)

\* client.get raises instead of returning a response (a transport error, or
\* the 60 s timeout of the client)
request_error(t) ==
    /\ pc[t] = "inflight"
    /\ API_CALL_LOCK' =
         IF tool[t] = "stop_point_list"
         THEN aexit(API_CALL_LOCK, "TransportError") ELSE API_CALL_LOCK
    /\ Finish(t, 0, Raised("TransportError", FALSE))

\* the task is cancelled while it awaits the HTTP response
cancel_inflight(t) ==
    /\ pc[t] = "inflight"
    /\ API_CALL_LOCK' =
         IF tool[t] = "stop_point_list"
         THEN aexit(API_CALL_LOCK, "CancelledError") ELSE API_CALL_LOCK
    /\ Finish(t, 0, Raised("CancelledError", FALSE))

\* the task is cancelled while it waits for the lock
cancel_waiting(t) ==
    /\ pc[t] = "waiting"
    /\ API_CALL_LOCK' = acquire_cancelled(API_CALL_LOCK, t)
    /\ Finish(t, 0, Raised("CancelledError", FALSE))

Invoke(t) ==
    \/ stop_point_types_call(t)
    \/ journey_planner_call(t)
    \/ stop_point_list_call(t)
    \/ stop_point_list_wait(t)

\* the remote API answers the request of call t, or the request fails
Respond(t) ==
    \/ \E status \in Statuses, body \in TypesBodies :
           stop_point_types_response(t, status, body)
    \/ \E status \in Statuses, body \in JourneyBodies :
           journey_planner_response(t, status, body)
    \/ \E status \in Statuses, body \in ListBodies :
           stop_point_list_response(t, status, body)
    \/ request_error(t)

Cancel(t) == cancel_inflight(t) \/ cancel_waiting(t)

Next ==
    \E t \in Calls :
        Invoke(t) \/ stop_point_list_resume(t) \/ Respond(t) \/ Cancel(t)

Spec == Init /\ [][Next]_vars

\* runs in which no task is cancelled, every request is answered or fails,
\* and the event loop resumes every task whose future is done
LiveNext ==
    \E t \in Calls : Invoke(t) \/ stop_point_list_resume(t) \/ Respond(t)

LiveSpec ==
    /\ Init
    /\ [][LiveNext]_vars
    /\ \A t \in Calls : WF_vars(stop_point_list_resume(t))
    /\ \A t \in Calls : WF_vars(Respond(t))

\* ---------------------------------------------- one call, run sequentially
SeqStatuses == {200, 204, 302, 404, 500}

SeqTypesBodies == TypesBodies \cup {ErrorObject}

SeqListBodies ==
    {Invalid, ErrorObject, EmptyObject}
    \cup { Array(items) :
             items \in SeqsUpTo(StopPoints \cup BrokenStopPoints, MaxItems) }

SeqJourneyBodies ==
    {Invalid, ErrorObject, Array(<<>>)}
    \cup { Object([journeys |-> js]) :
             js \in SeqsUpTo({ Journey(legs) :
                                 legs \in SeqsUpTo({ Leg(x) : x \in Summaries },
                                                   MaxItems) },
                             MaxItems) }

HeaderDicts ==
    { EmptyDict,
      [Accept |-> "application/json"],
      [app_key |-> "mine"],
      [Accept |-> "application/json", app_key |-> "mine"] }

SeqKwargs ==
    {EmptyDict, [params |-> "mode=tube"]}
    \cup { [headers |-> h] : h \in HeaderDicts }
    \cup { [headers |-> h, params |-> "mode=tube"] : h \in HeaderDicts }

ToolInput(op, status, body) ==
    [op |-> op, status |-> status, body |-> body, kwargs |-> EmptyDict]

TypesInputs ==
    { ToolInput("stop_point_types", s, b) :
        s \in SeqStatuses, b \in SeqTypesBodies }

ListInputs ==
    { ToolInput("stop_point_list", s, b) :
        s \in SeqStatuses, b \in SeqListBodies }

JourneyInputs ==
    { ToolInput("journey_planner", s, b) :
        s \in SeqStatuses, b \in SeqJourneyBodies }

GatewayInputs ==
    { [op |-> "get_tfl_api", status |-> 0, body |-> Invalid, kwargs |-> k] :
        k \in SeqKwargs }

SeqInit ==
    /\ deps \in { [tfl_api_key |-> k] : k \in {None, "key"} }
    /\ API_CALL_LOCK = [locked |-> FALSE, waiters |-> <<>>, woken |-> {}]
    /\ pc = [t \in Calls |-> "idle"]
    /\ tool = [t \in Calls |-> None]
    /\ last = NoReturn
    /\ \/ input \in TypesInputs
       \/ input \in ListInputs
       \/ input \in JourneyInputs
       \/ input \in GatewayInputs

\* one stop_point_types call, from invocation to return
seq_stop_point_types ==
    /\ input.op = "stop_point_types" /\ last.tool = None
    /\ get_tfl_api(deps.tfl_api_key, EmptyDict).exc = None
    /\ last' = ToolReturn(input.op, input.status,
                          stop_point_types(input.status, input.body))
    /\ UNCHANGED <<deps, API_CALL_LOCK, pc, tool, input>>

\* one stop_point_list call, from invocation to return: the lock is free,
\* taken, and released on the way out
seq_stop_point_list ==
    /\ input.op = "stop_point_list" /\ last.tool = None
    /\ acquire_now(API_CALL_LOCK)
    /\ get_tfl_api(deps.tfl_api_key, EmptyDict).exc = None
    /\ LET ret == stop_point_list(input.status, input.body)
       IN  /\ API_CALL_LOCK' =
                aexit([API_CALL_LOCK EXCEPT !.locked = TRUE],
                      IF ret.exc = "ModelRetry" THEN "ModelRetry" ELSE None)
           /\ last' = ToolReturn(input.op, input.status, ret)
    /\ UNCHANGED <<deps, pc, tool, input>>

\* one journey_planner call, from invocation to return
seq_journey_planner ==
    /\ input.op = "journey_planner" /\ last.tool = None
    /\ get_tfl_api(deps.tfl_api_key, EmptyDict).exc = None
    /\ last' = ToolReturn(input.op, input.status,
                          journey_planner(input.status, input.body))
    /\ UNCHANGED <<deps, API_CALL_LOCK, pc, tool, input>>

\* one get_tfl_api call with the caller's keyword arguments: `result` is
\* the sequence of HTTP requests it issued
seq_get_tfl_api ==
    /\ input.op = "get_tfl_api" /\ last.tool = None
    /\ LET got == get_tfl_api(deps.tfl_api_key, input.kwargs)
       IN  last' = [tool |-> input.op, status |-> 0, exc |-> got.exc,
                    result |-> got.requests, parsed |-> FALSE]
    /\ UNCHANGED <<deps, API_CALL_LOCK, pc, tool, input>>

SeqNext ==
    \/ seq_stop_point_types
    \/ seq_stop_point_list
    \/ seq_journey_planner
    \/ seq_get_tfl_api

SeqSpec == SeqInit /\ [][SeqNext]_vars

\* ------------------------------------------------------------ properties
\* the stop_point_list calls that are awaiting their HTTP response
GuardedInFlight ==
    { t \in Calls : pc[t] = "inflight" /\ tool[t] = "stop_point_list" }

InFlight == { t \in Calls : pc[t] = "inflight" }

Is2xx(status) == 200 <= status /\ status <= 299

\* C1: at most one stop_point_list call is between sending its request and
\* receiving its response, and that call holds API_CALL_LOCK
C1_GuardedCallsSerialized ==
    /\ Cardinality(GuardedInFlight) <= 1
    /\ GuardedInFlight # {} => API_CALL_LOCK.locked

\* one guarded call in flight while every other call waits for the lock
C1_Witness ==
    /\ Cardinality(GuardedInFlight) = 1
    /\ Len(API_CALL_LOCK.waiters) = NumCalls - 1

\* C2: a stop_point_list response with a non-2xx status other than 404 ends
\* the call in a Fatal failure, without parsing the response body
C2_OtherStatusesAreFatal ==
    ( /\ last.tool = "stop_point_list"
      /\ last.status # 0 /\ ~Is2xx(last.status) /\ last.status # 404 )
    => (Outcome(last.exc) = "Fatal" /\ ~last.parsed)

\* C3: a stop_point_list response with status 404 ends the call by raising
\* ModelRetry, the Retryable condition
C3_NotFoundIsRetryable ==
    (last.tool = "stop_point_list" /\ last.status = 404)
    => (last.exc = "ModelRetry" /\ Outcome(last.exc) = "Retryable")

\* a stop_point_list call has just been answered 404 with a waiter queued
C3_Witness ==
    /\ last.tool = "stop_point_list" /\ last.status = 404
    /\ API_CALL_LOCK.woken # {}

\* C4: the lock is never held while no stop_point_list call is inside the
\* guarded section, whichever way the last one left it
C4_LockHeldOnlyInside == API_CALL_LOCK.locked => GuardedInFlight # {}

\* a guarded call has just been cancelled while awaiting its response
C4_Witness ==
    /\ last.tool = "stop_point_list" /\ last.exc = "CancelledError"
    /\ ~API_CALL_LOCK.locked
    /\ API_CALL_LOCK.waiters = <<>>

\* C5: with no cancellation, every request answered or failed and fair
\* scheduling, no stop_point_list call waits for the lock forever: it gets
\* the lock, sends its request, and ends Success, Retryable or Fatal
C5_GuardedCallsFinish ==
    /\ \A t \in Calls : []<>(pc[t] # "waiting")
    /\ \A t \in Calls : []<>(pc[t] # "inflight")
    /\ [][\A t \in Calls :
            /\ (pc[t] = "waiting" /\ pc'[t] # "waiting")
               => (pc'[t] = "inflight" /\ API_CALL_LOCK'.locked)
            /\ (pc[t] = "inflight" /\ pc'[t] # "inflight")
               => /\ pc'[t] = "idle"
                  /\ Outcome(last'.exc) \in {"Success", "Retryable", "Fatal"}
         ]_vars

\* a call ended Retryable and every call, the re-invoked one included, is a
\* stop_point_list call that holds the lock or waits for it
C5_Witness ==
    /\ last.tool = "stop_point_list" /\ last.exc = "ModelRetry"
    /\ \A t \in Calls : pc[t] # "idle" /\ tool[t] = "stop_point_list"

\* C6: a stop_point_types or journey_planner response with a non-2xx status
\* ends the call in a Fatal failure, never Retryable, never a result
C6_UnguardedErrorsAreFatal ==
    ( /\ last.tool \in {"stop_point_types", "journey_planner"}
      /\ ~Is2xx(input.status) )
    => (Outcome(last.exc) = "Fatal" /\ last.exc = "HTTPStatusError")

\* a journey_planner call was answered 404
C6_Witness ==
    /\ last.tool = "journey_planner"
    /\ input.status = 404 /\ last.status = 404

\* C7: get_tfl_api called with the caller's own headers issues exactly one
\* request, carrying every caller header and the app_key header
C7_CallerHeadersMerged ==
    (last.tool = "get_tfl_api" /\ "headers" \in DOMAIN input.kwargs)
    => /\ last.exc = None
       /\ Len(last.result) = 1
       /\ "app_key" \in DOMAIN last.result[1].headers
       /\ \A k \in DOMAIN input.kwargs["headers"] :
            /\ k \in DOMAIN last.result[1].headers
            /\ last.result[1].headers[k] = input.kwargs["headers"][k]

\* name, lower-cased, has pattern at some position
HasSubstring(pattern, name) ==
    \E i \in 1..Len(name) :
        /\ i + Len(pattern) - 1 <= Len(name)
        /\ \A k \in 1..Len(pattern) : lower_char(name[i + k - 1]) = pattern[k]

\* the positions of the records the filter is to keep
Wanted(items) ==
    { i \in 1..Len(items) :
        \/ HasSubstring(camden, items[i]["commonName"])
        \/ HasSubstring(liverpool, items[i]["commonName"]) }

\* the k-th smallest member of a set of positions
Nth(S, k) == CHOOSE i \in S : Cardinality({ j \in S : j <= i }) = k

\* C8: a 2xx stop_point_list response holding a list of stop point records
\* returns exactly the records whose lower-cased commonName contains
\* "camden" or "liverpool", in order, each as {name, naptanId}; no match
\* returns the empty list
C8_FilterKeepsExactlyMatches ==
    ( /\ last.tool = "stop_point_list"
      /\ Is2xx(input.status)
      /\ input.body.kind = "array"
      /\ \A i \in 1..Len(input.body.items) :
           {"commonName", "naptanId"} \subseteq DOMAIN input.body.items[i] )
    => /\ last.exc = None
       /\ Len(last.result) = Cardinality(Wanted(input.body.items))
       /\ \A k \in 1..Len(last.result) :
            LET item == input.body.items[Nth(Wanted(input.body.items), k)]
            IN  /\ DOMAIN last.result[k] = {"name", "naptanId"}
                /\ last.result[k]["name"] = item["commonName"]
                /\ last.result[k]["naptanId"] = item["naptanId"]

\* a list of two records, the second matching only once lower-cased
C8_Witness ==
    /\ last.tool = "stop_point_list" /\ last.exc = None
    /\ input.status = 200
    /\ input.body =
         Array(<< [commonName |-> OxfordCircus, naptanId |-> "940GZZLUOXC"],
                  [commonName |-> CAMDEN, naptanId |-> "910GCMDNRD"] >>)
    /\ Len(last.result) = 1

\* C9: a successful journey_planner response returns the set of the
\* summaries of all legs of all journeys, and nothing else
C9_AllLegSummaries ==
    ( /\ last.tool = "journey_planner"
      /\ Is2xx(input.status)
      /\ input.body.kind = "object"
      /\ "journeys" \in DOMAIN input.body.fields )
    => /\ last.exc = None
       /\ LET js == input.body.fields["journeys"]
          IN  last.result =
                UNION { { js[j].legs[l].instruction.summary :
                            l \in 1..Len(js[j].legs) } :
                        j \in 1..Len(js) }

\* two journeys that share a leg summary, the second with a leg of its own
C9_Witness ==
    /\ last.tool = "journey_planner" /\ last.exc = None
    /\ input.body =
         Object([journeys |->
           << Journey(<<SharedLeg>>),
              Journey(<<SharedLeg, Leg("Northern line to Bank")>>) >>])
    /\ Cardinality(last.result) = 2

\* C10: at most one TfL API call is in flight, whichever tools are invoked
C10_OneApiCallAtATime == Cardinality(InFlight) <= 1

====
